---- MODULE Spec2Model ----
(***************************************************************************)
(* Camera node of node.gl (node_camera.c): the init / update / draw /      *)
(* uninit handlers of ngli_camera_class, together with the part of the     *)
(* OpenGL context, the heap, the child node and the transform nodes that   *)
(* the handlers read and write.  The build modelled is the one with        *)
(* TARGET_LINUX (or TARGET_DARWIN) defined.                                 *)
(***************************************************************************)
EXTENDS Integers, Sequences, FiniteSets, TLC

VARIABLES
    s,          \* struct camera (node->priv_data)
    cfg,        \* the parameters the node was constructed with (never written)
    state,      \* where the node is in its lifecycle
    ret,        \* what camera_init returned
    inited,     \* the sub-nodes ngli_node_init was called on, in call order
    heap,       \* the calloc'ed pixel buffer
    gl,         \* the OpenGL context shared by all nodes
    gl_at_init, \* the OpenGL context as it was when camera_init was entered
    gl_at_uninit, \* the OpenGL context as it was when camera_uninit was entered
    child,      \* the child node: the two matrices and what its update saw
    child_at_update, \* the child node as it was when camera_update was entered
    tr,         \* the transform nodes: last matrix and time of last update
    calls,      \* the calls the most recent handler made, in order
    last,       \* the most recent handler
    out,        \* the write(2) calls made on pipe_fd so far, in order
    nb_draws    \* camera_draw calls so far

vars == <<s, cfg, state, ret, inited, heap, gl, gl_at_init, gl_at_uninit, child,
          child_at_update, tr, calls, last, out, nb_draws>>

----------------------------------------------------------------------------
(* Bounds *)

MaxDraws == 2
MaxT == 2
NameMax == 3

Names == 1..NameMax
Times == 0..MaxT
Dims == {-1, 0, 1, 2}
PipeFds == {0, 3}
RetCodes == {0, -1, -2}
FirstFbs == {1}
FirstTextures == {1, 2}
FirstRenderbuffers == {1, 2}
MaxTextureSizes == {16384}

SubNodes == {"child", "eye_transform", "center_transform", "up_transform"}
Slots == {"eye", "center", "up"}
NoNode == "NULL"

\* a vec3 / vec4 / mat4 is a tuple of numbers; a mat4 is column-major, and
\* the C index i is the TLA+ index i + 1.  NoMatrix is the NULL matrix.
NoMatrix == <<>>
CamVecs ==
    { [eye |-> <<0, 0, 9>>, center |-> <<0, 0, 0>>, up |-> <<0, 1, 0>>],
      [eye |-> <<0, 1, 9>>, center |-> <<0, 1, 0>>, up |-> <<0, 1, 0>>],
      [eye |-> <<0, 0, 9>>, center |-> <<0, 0, 0>>, up |-> <<1, 0, 0>>] }
Perspectives == { <<90, 2, 1, 3>> }
TransformKinds == {"tz", "tz2"}
Keyframes == <<[t |-> 0, v |-> 30], [t |-> 2, v |-> 60]>>
FovLists == { <<>>, Keyframes }

Ev(op, target, a) == [op |-> op, target |-> target, a |-> a]

Min(S) == CHOOSE x \in S : \A y \in S : x <= y

----------------------------------------------------------------------------
(* OpenGL, as far as the camera uses it.  Each operator takes the context  *)
(* g and returns the context after the call.                               *)

GenTextures(g, n) == [g EXCEPT !.textures = @ \cup {n}]

BindTexture(g, id) == [g EXCEPT !.tex2d = id]

\* glTexImage2D on the texture bound to GL_TEXTURE_2D: GL_INVALID_VALUE, and
\* no image, for a negative or too large size.
TexImage2D(g, w, h) ==
    IF w < 0 \/ h < 0 \/ w > g.max_texture_size \/ h > g.max_texture_size \/ g.tex2d = 0
    THEN g
    ELSE [g EXCEPT !.teximg[g.tex2d] = <<w, h>>]

GenFramebuffers(g, n) == [g EXCEPT !.framebuffers = @ \cup {n}]

\* target GL_FRAMEBUFFER sets both bindings
BindFramebuffer(g, target, id) ==
    CASE target = "GL_FRAMEBUFFER" -> [g EXCEPT !.read_fb = id, !.draw_fb = id]
      [] target = "GL_READ_FRAMEBUFFER" -> [g EXCEPT !.read_fb = id]
      [] target = "GL_DRAW_FRAMEBUFFER" -> [g EXCEPT !.draw_fb = id]

\* GL_FRAMEBUFFER_BINDING is the draw framebuffer binding
GetFramebufferBinding(g) == g.draw_fb

\* glFramebufferTexture2D(GL_FRAMEBUFFER, GL_COLOR_ATTACHMENT0, GL_TEXTURE_2D, tex, 0):
\* GL_INVALID_OPERATION, and no change, on the default framebuffer.
FramebufferTexture2D(g, tex) ==
    IF g.draw_fb = 0 THEN g ELSE [g EXCEPT !.attach[g.draw_fb] = tex]

\* glCheckFramebufferStatus(GL_FRAMEBUFFER) == GL_FRAMEBUFFER_COMPLETE
FramebufferComplete(g) ==
    \/ g.draw_fb = 0
    \/ /\ g.attach[g.draw_fb] # 0
       /\ g.teximg[g.attach[g.draw_fb]] # <<>>
       /\ g.teximg[g.attach[g.draw_fb]][1] > 0
       /\ g.teximg[g.attach[g.draw_fb]][2] > 0

\* glDeleteRenderbuffers: names that are no renderbuffer are ignored
DeleteRenderbuffers(g, id) == [g EXCEPT !.renderbuffers = @ \ {id}]

DeleteTextures(g, id) ==
    IF id = 0 \/ id \notin g.textures THEN g
    ELSE [g EXCEPT !.textures = @ \ {id},
                   !.teximg[id] = <<>>,
                   !.tex2d = IF @ = id THEN 0 ELSE @,
                   !.attach = [f \in DOMAIN @ |->
                                 IF f \in {g.read_fb, g.draw_fb} /\ @[f] = id THEN 0 ELSE @[f]]]

----------------------------------------------------------------------------
(* camera_init *)

\* the sub-nodes camera_init initializes, in the order of its calls
InitOrder(sv) ==
    <<"child">>
    \o (IF sv.eye_transform # NoNode THEN <<"eye_transform">> ELSE <<>>)
    \o (IF sv.center_transform # NoNode THEN <<"center_transform">> ELSE <<>>)
    \o (IF sv.up_transform # NoNode THEN <<"up_transform">> ELSE <<>>)

\* as SubInitCount, but carrying on after a failed sub-initialization
SubInitCountAll(order, rc) == Len(order)

\* how many of the calls in order are made when the sub-inits return rc:
\* up to and including the first that returns a negative code
SubInitCount(order, rc) ==
    IF \E i \in 1..Len(order) : rc[order[i]] < 0
    THEN Min({i \in 1..Len(order) : rc[order[i]] < 0})
    ELSE Len(order)

\* the code the sub-initializations leave in ret
SubInitRet(order, rc) == rc[order[SubInitCount(order, rc)]]

\* as CaptureEnabled, but also asking for a positive size
CaptureEnabledSized(sv) == sv.pipe_fd # 0 /\ sv.pipe_width > 0 /\ sv.pipe_height > 0

\* if (s->pipe_fd)
CaptureEnabled(sv) == sv.pipe_fd # 0

\* calloc(4, s->pipe_width * s->pipe_height): the int product converted to
\* size_t; a negative product is a count no allocation can satisfy.
CallocOutcomes(nmemb) == IF nmemb < 0 THEN {FALSE} ELSE {TRUE, FALSE}

\* the block calloc(4, nmemb) returns: 4 members of nmemb bytes each
CallocBlock(h, nmemb) ==
    [h EXCEPT !.live = TRUE, !.nmemb = 4, !.size = nmemb, !.allocs = @ + 1]

\* lines 87-94
SetupTexture(g, sv, tn) ==
    BindTexture(TexImage2D(BindTexture(GenTextures(g, tn), tn),
                           sv.pipe_width, sv.pipe_height), 0)

\* as InitRestoreFramebuffer, but binding the default framebuffer
InitRestoreDefault(g, framebuffer_id) == BindFramebuffer(g, "GL_FRAMEBUFFER", 0)

\* line 104: the binding put back at the end of the capture setup
InitRestoreFramebuffer(g, framebuffer_id) ==
    BindFramebuffer(g, "GL_FRAMEBUFFER", framebuffer_id)

\* lines 96-104, up to the assertion; saved is the local framebuffer_id
SetupFramebuffer(g, tn, fn) ==
    FramebufferTexture2D(
        BindFramebuffer(GenFramebuffers(g, fn), "GL_FRAMEBUFFER", fn), tn)

\* the sub-initializations made, each with the code it returned
InitCalls(order, rc, n) ==
    [i \in 1..n |-> Ev("ngli_node_init", order[i], <<rc[order[i]]>>)]

CaptureCalls(sv, tn, fn, saved, complete) ==
    <<Ev("GenTextures", "", <<tn>>),
      Ev("BindTexture", "GL_TEXTURE_2D", <<tn>>),
      Ev("TexImage2D", "GL_TEXTURE_2D", <<sv.pipe_width, sv.pipe_height>>),
      Ev("BindTexture", "GL_TEXTURE_2D", <<0>>),
      Ev("GetIntegerv", "GL_FRAMEBUFFER_BINDING", <<saved>>),
      Ev("GenFramebuffers", "", <<fn>>),
      Ev("BindFramebuffer", "GL_FRAMEBUFFER", <<fn>>),
      Ev("FramebufferTexture2D", "GL_FRAMEBUFFER", <<tn>>),
      Ev("CheckFramebufferStatus", "GL_FRAMEBUFFER", <<>>)>>
    \o (IF complete THEN <<Ev("BindFramebuffer", "GL_FRAMEBUFFER", <<saved>>)>> ELSE <<>>)

\* as PipeBufMissing, but without the NULL check
PipeBufUnchecked(buf) == FALSE

\* if (!s->pipe_buf) return -1;
PipeBufMissing(buf) == buf = 0

camera_init ==
    /\ state = "uninitialized"
    /\ \E rc \in [SubNodes -> RetCodes], ok \in BOOLEAN, tn \in Names, fn \in Names :
        LET order == InitOrder(s)
            n     == SubInitCount(order, rc)
            r     == SubInitRet(order, rc)
            nmemb == s.pipe_width * s.pipe_height
            saved == GetFramebufferBinding(SetupTexture(gl, s, tn))
            g1    == SetupFramebuffer(SetupTexture(gl, s, tn), tn, fn)
            done  == FramebufferComplete(g1)
            buf   == IF ok THEN 1 ELSE 0
        IN
        /\ tn \notin gl.textures
        /\ fn \notin gl.framebuffers
        /\ ok \in CallocOutcomes(nmemb)
        /\ gl_at_init' = gl
        /\ last' = "init"
        /\ inited' = SubSeq(order, 1, n)
        /\ IF r < 0 THEN
              \* a sub-initialization failed: return ret
              /\ ret' = r
              /\ state' = "init_failed"
              /\ calls' = InitCalls(order, rc, n)
              /\ UNCHANGED <<s, heap, gl>>
           ELSE IF ~CaptureEnabled(s) THEN
              /\ ret' = 0
              /\ state' = "initialized"
              /\ calls' = InitCalls(order, rc, n)
              /\ UNCHANGED <<s, heap, gl>>
           ELSE IF PipeBufMissing(buf) THEN
              \* calloc returned NULL
              /\ ret' = -1
              /\ state' = "init_failed"
              /\ calls' = InitCalls(order, rc, n) \o <<Ev("calloc", "", <<4, nmemb>>)>>
              /\ UNCHANGED <<s, heap, gl>>
           ELSE
              /\ s' = [s EXCEPT !.pipe_buf = buf, !.texture_id = tn, !.framebuffer_id = fn]
              /\ heap' = IF ok
                         THEN CallocBlock(heap, nmemb)
                         ELSE heap
              /\ calls' = InitCalls(order, rc, n) \o <<Ev("calloc", "", <<4, nmemb>>)>>
                            \o CaptureCalls(s, tn, fn, saved, done)
              /\ IF done
                 THEN /\ gl' = InitRestoreFramebuffer(g1, saved)
                      /\ ret' = 0
                      /\ state' = "initialized"
                 ELSE \* ngli_assert fails: the process is aborted
                      /\ gl' = g1
                      /\ ret' = ret
                      /\ state' = "aborted"
    /\ UNCHANGED <<cfg, gl_at_uninit, child, child_at_update, tr, out, nb_draws>>

----------------------------------------------------------------------------
(* math_utils: vec3 / mat4 helpers the camera calls *)

Vec3Sub(a, b) == <<a[1] - b[1], a[2] - b[2], a[3] - b[3]>>

Vec3Dot(a, b) == a[1] * b[1] + a[2] * b[2] + a[3] * b[3]

Vec3Cross(a, b) ==
    <<a[2] * b[3] - a[3] * b[2], a[3] * b[1] - a[1] * b[3], a[1] * b[2] - a[2] * b[1]>>

\* the length of a vector whose squared length n is a perfect square
Sqrt(n) == CHOOSE r \in 0..n : r * r = n

\* v / |v|, for the vectors whose normalization has whole components
Vec3Norm(v) ==
    LET l == Sqrt(Vec3Dot(v, v)) IN <<v[1] \div l, v[2] \div l, v[3] \div l>>

\* ngli_mat4_look_at(dst, eye, center, up): the right-handed view matrix
Mat4LookAt(eye, center, up) ==
    LET f  == Vec3Norm(Vec3Sub(center, eye))
        sd == Vec3Norm(Vec3Cross(f, up))
        u  == Vec3Cross(sd, f)
    IN << sd[1], u[1], -f[1], 0,
          sd[2], u[2], -f[2], 0,
          sd[3], u[3], -f[3], 0,
          -Vec3Dot(sd, eye), -Vec3Dot(u, eye), Vec3Dot(f, eye), 1 >>

\* ngli_mat4_mul_vec4(dst, m, v)
Mat4MulVec4(m, v) ==
    [i \in 1..4 |-> m[i] * v[1] + m[4 + i] * v[2] + m[8 + i] * v[3] + m[12 + i] * v[4]]

Mat4Translate(x, y, z) ==
    << 1, 0, 0, 0,   0, 1, 0, 0,   0, 0, 1, 0,   x, y, z, 1 >>

\* 1000 * cos(r) / sin(r) for r = fov / 2 degrees, rounded
CotHalf(fov) ==
    CASE fov = 30 -> 3732
      [] fov = 45 -> 2414
      [] fov = 60 -> 1732
      [] fov = 90 -> 1000

\* ngli_mat4_perspective(dst, fov, aspect, near, far), entries in 1/1000
Mat4Perspective(fov, aspect, near, far) ==
    LET c == CotHalf(fov)
        z == far - near
    IN << c \div aspect, 0, 0, 0,
          0, c, 0, 0,
          0, 0, (-(far + near) * 1000) \div z, -1000,
          0, 0, (-2 * near * far * 1000) \div z, 0 >>

----------------------------------------------------------------------------
(* the nodes the camera calls into *)

\* what a transform node of the given kind computes when updated for t
TransformMatrix(kind, t) ==
    CASE kind = "tz"  -> IF t = 0 THEN NoMatrix ELSE Mat4Translate(0, 0, t)
      [] kind = "tz2" -> Mat4Translate(0, 0, 2 * t + 1)

\* ngli_node_update on a transform node
TransformUpdate(kind, t) == [matrix |-> TransformMatrix(kind, t), t |-> t]

\* ngli_get_last_transformation_matrix
GetLastTransformationMatrix(node) == node.matrix

\* ngli_animkf_interpolate: the value written to *dst
AnimkfValue(kfs, t) ==
    IF t <= kfs[1].t THEN kfs[1].v
    ELSE IF t >= kfs[Len(kfs)].t THEN kfs[Len(kfs)].v
    ELSE LET i == CHOOSE i \in 1..(Len(kfs) - 1) : kfs[i].t <= t /\ t < kfs[i + 1].t
         IN kfs[i].v + ((kfs[i + 1].v - kfs[i].v) * (t - kfs[i].t)) \div (kfs[i + 1].t - kfs[i].t)

\* ngli_animkf_interpolate: the cursor it leaves in *current_kf
AnimkfCursor(kfs, cur, t) ==
    IF t <= kfs[1].t \/ t >= kfs[Len(kfs)].t THEN cur
    ELSE (CHOOSE i \in 1..(Len(kfs) - 1) : kfs[i].t <= t /\ t < kfs[i + 1].t) - 1

\* ngli_node_update(child, t): the child runs with the matrices it holds
ChildUpdate(c, t) ==
    [c EXCEPT !.seen = [t |-> t, modelview |-> c.modelview_matrix,
                        projection |-> c.projection_matrix]]

----------------------------------------------------------------------------
(* camera_update *)

TransformOf(sv, what) ==
    CASE what = "eye" -> sv.eye_transform
      [] what = "center" -> sv.center_transform
      [] what = "up" -> sv.up_transform

StaticOf(sv, what) ==
    CASE what = "eye" -> sv.eye
      [] what = "center" -> sv.center
      [] what = "up" -> sv.up

\* as ApplyTransform, but querying the matrix the node had before its update
ApplyTransformStale(static, kind, node, t) ==
    LET what == <<static[1], static[2], static[3], 1>>
    IN IF kind = NoNode THEN what
       ELSE LET matrix == GetLastTransformationMatrix(node)
            IN IF matrix # NoMatrix THEN Mat4MulVec4(matrix, what) ELSE what

\* APPLY_TRANSFORM(what): the local float what[4] after the macro; node is
\* the transform node as it is when the macro starts
ApplyTransform(static, kind, node, t) ==
    LET what == <<static[1], static[2], static[3], 1>>
    IN IF kind = NoNode THEN what
       ELSE LET matrix == GetLastTransformationMatrix(TransformUpdate(kind, t))
            IN IF matrix # NoMatrix THEN Mat4MulVec4(matrix, what) ELSE what

\* lines 139-147: look-at, then the flip of view[5] when capturing
ViewMatrix(sv, eye, center, up) ==
    LET view == Mat4LookAt(eye, center, up)
    IN IF CaptureEnabled(sv) THEN [view EXCEPT ![6] = -@] ELSE view

\* as UpdateFov, but storing the sample in perspective[1]
UpdateFovWrongSlot(sv, t) ==
    IF sv.nb_fov_animkf # 0
    THEN [sv EXCEPT !.perspective[2] = AnimkfValue(sv.fov_animkf, t),
                    !.current_fov_kf = AnimkfCursor(sv.fov_animkf, sv.current_fov_kf, t)]
    ELSE sv

\* lines 149-150: the camera after the fov keyframes have been sampled
UpdateFov(sv, t) ==
    IF sv.nb_fov_animkf # 0
    THEN [sv EXCEPT !.perspective[1] = AnimkfValue(sv.fov_animkf, t),
                    !.current_fov_kf = AnimkfCursor(sv.fov_animkf, sv.current_fov_kf, t)]
    ELSE sv

\* as CameraAfterUpdate, but with the transformed vectors stored in the camera
CameraKeepingVectors(sv, eye, center, up, t) ==
    [UpdateFov(sv, t) EXCEPT !.eye = SubSeq(eye, 1, 3),
                             !.center = SubSeq(center, 1, 3),
                             !.up = SubSeq(up, 1, 3)]

\* lines 116-150: struct camera when camera_update returns; eye, center and
\* up are locals that APPLY_TRANSFORM fills with memcpy from s->eye, s->center
\* and s->up, and only ngli_animkf_interpolate writes into the struct
CameraAfterUpdate(sv, eye, center, up, t) == UpdateFov(sv, t)

\* lines 152-158
ProjectionMatrix(sv) ==
    Mat4Perspective(sv.perspective[1], sv.perspective[2], sv.perspective[3],
                    sv.perspective[4])

\* as PushAndUpdateChild, but updating the child before the two memcpy
UpdateChildThenPush(c, view, perspective, t) ==
    [ChildUpdate(c, t) EXCEPT !.modelview_matrix = view,
                              !.projection_matrix = perspective]

\* lines 160-163: the child after the two memcpy and its update
PushAndUpdateChild(c, view, perspective, t) ==
    ChildUpdate([c EXCEPT !.modelview_matrix = view,
                          !.projection_matrix = perspective], t)

TransformCalls(sv, what, t) ==
    IF TransformOf(sv, what) = NoNode THEN <<>>
    ELSE <<Ev("ngli_node_update", what, <<t>>),
           Ev("ngli_get_last_transformation_matrix", what, <<>>)>>

UpdateCalls(sv, eye, center, up, t) ==
    TransformCalls(sv, "eye", t) \o TransformCalls(sv, "center", t)
    \o TransformCalls(sv, "up", t)
    \o <<Ev("ngli_mat4_look_at", "", eye \o center \o up)>>
    \o (IF sv.nb_fov_animkf # 0 THEN <<Ev("ngli_animkf_interpolate", "", <<t>>)>> ELSE <<>>)
    \o <<Ev("ngli_mat4_perspective", "", UpdateFov(sv, t).perspective),
         Ev("ngli_node_update", "child", <<t>>)>>

camera_update ==
    /\ state = "initialized"
    /\ \E t \in Times :
        LET eye    == ApplyTransform(s.eye, s.eye_transform, tr["eye"], t)
            center == ApplyTransform(s.center, s.center_transform, tr["center"], t)
            up     == ApplyTransform(s.up, s.up_transform, tr["up"], t)
            view   == ViewMatrix(s, eye, center, up)
            s1     == CameraAfterUpdate(s, eye, center, up, t)
        IN
        /\ s' = s1
        /\ tr' = [what \in Slots |->
                    IF TransformOf(s, what) # NoNode
                    THEN TransformUpdate(TransformOf(s, what), t)
                    ELSE tr[what]]
        /\ child' = PushAndUpdateChild(child, view, ProjectionMatrix(s1), t)
        /\ calls' = UpdateCalls(s, eye, center, up, t)
    /\ child_at_update' = child
    /\ last' = "update"
    /\ UNCHANGED <<cfg, state, ret, inited, heap, gl, gl_at_init, gl_at_uninit, out, nb_draws>>

----------------------------------------------------------------------------
(* camera_draw *)

\* ngli_node_draw(s->child): the child renders and may leave any framebuffer
\* bound for reading and for drawing
ChildDraw(g, r, d) == [g EXCEPT !.read_fb = r, !.draw_fb = d]

\* gl->GetIntegerv(GL_MULTISAMPLE, &multisampling)
Multisampling(g) == g.multisample # 0

\* as DrawResolve, but leaving the multisampled framebuffer as read source
DrawResolveNoRebind(g, sv) ==
    BindFramebuffer(
        BindFramebuffer(g, "GL_READ_FRAMEBUFFER", g.draw_fb),
        "GL_DRAW_FRAMEBUFFER", sv.framebuffer_id)

\* lines 184-191: resolve into the capture framebuffer, then read from it
DrawResolve(g, sv) ==
    BindFramebuffer(
        BindFramebuffer(
            BindFramebuffer(g, "GL_READ_FRAMEBUFFER", g.draw_fb),
            "GL_DRAW_FRAMEBUFFER", sv.framebuffer_id),
        "GL_READ_FRAMEBUFFER", sv.framebuffer_id)

\* as DrawRestore, but putting only the read binding back
DrawRestoreReadOnly(g, framebuffer_read_id, framebuffer_draw_id) ==
    BindFramebuffer(g, "GL_READ_FRAMEBUFFER", framebuffer_read_id)

\* lines 200-203
DrawRestore(g, framebuffer_read_id, framebuffer_draw_id) ==
    BindFramebuffer(
        BindFramebuffer(g, "GL_READ_FRAMEBUFFER", framebuffer_read_id),
        "GL_DRAW_FRAMEBUFFER", framebuffer_draw_id)

\* whether the int product q * 4 is outside the range of int
Times4Overflows(q) == q > 536870911 \/ q < -536870912

\* the int product q * 4 kept to 32 bits in two's complement
Times4Wrapped(q) ==
    LET r == q % 1073741824
    IN IF r < 536870912 THEN 4 * r ELSE 4 * (r - 1073741824)

\* s->pipe_width * s->pipe_height * 4 is an int expression and its overflow
\* is undefined: the build either wraps it or, with -ftrapv, aborts
WriteCountTraps(sv) ==
    IF Times4Overflows(sv.pipe_width * sv.pipe_height) THEN {FALSE, TRUE} ELSE {FALSE}

\* the third argument of write, as the int the expression gives
WriteCount(sv) == Times4Wrapped(sv.pipe_width * sv.pipe_height)

\* as ReadbackCalls, but writing the buffer before reading the pixels back
WriteBeforeReadback(sv, rfb) ==
    <<Ev("write", "", <<sv.pipe_fd, sv.pipe_width * sv.pipe_height * 4>>),
      Ev("ReadPixels", "", <<rfb, 0, 0, sv.pipe_width, sv.pipe_height>>)>>

\* lines 196-197: the readback and the write; rfb is the framebuffer read
ReadbackCalls(sv, rfb) ==
    <<Ev("ReadPixels", "", <<rfb, 0, 0, sv.pipe_width, sv.pipe_height>>),
      Ev("write", "", <<sv.pipe_fd, WriteCount(sv)>>)>>

\* the calls of camera_draw after the child's draw; g is the context the
\* child's draw left
CaptureDrawCalls(g, sv) ==
    IF ~CaptureEnabled(sv) THEN <<>>
    ELSE IF Multisampling(g)
    THEN <<Ev("GetIntegerv", "GL_MULTISAMPLE", <<g.multisample>>),
           Ev("GetIntegerv", "GL_READ_FRAMEBUFFER_BINDING", <<g.read_fb>>),
           Ev("GetIntegerv", "GL_DRAW_FRAMEBUFFER_BINDING", <<g.draw_fb>>),
           Ev("BindFramebuffer", "GL_READ_FRAMEBUFFER", <<g.draw_fb>>),
           Ev("BindFramebuffer", "GL_DRAW_FRAMEBUFFER", <<sv.framebuffer_id>>),
           Ev("BlitFramebuffer", "",
              <<0, 0, sv.pipe_width, sv.pipe_height, 0, 0, sv.pipe_width, sv.pipe_height>>),
           Ev("BindFramebuffer", "GL_READ_FRAMEBUFFER", <<sv.framebuffer_id>>)>>
         \o ReadbackCalls(sv, DrawResolve(g, sv).read_fb)
         \o <<Ev("BindFramebuffer", "GL_READ_FRAMEBUFFER", <<g.read_fb>>),
              Ev("BindFramebuffer", "GL_DRAW_FRAMEBUFFER", <<g.draw_fb>>)>>
    ELSE <<Ev("GetIntegerv", "GL_MULTISAMPLE", <<g.multisample>>)>>
         \o ReadbackCalls(sv, g.read_fb)

\* the context camera_draw leaves; g is the context the child's draw left
CaptureDraw(g, sv) ==
    IF CaptureEnabled(sv) /\ Multisampling(g)
    THEN DrawRestore(DrawResolve(g, sv), g.read_fb, g.draw_fb)
    ELSE g

\* the write calls made so far, after this draw's
Written(o, cs) ==
    o \o SelectSeq(cs, LAMBDA e : e.op = "write")

\* the calls made when the evaluation of the third argument of write aborts
UntilWrite(cs) ==
    SubSeq(cs, 1, (CHOOSE i \in 1..Len(cs) : cs[i].op = "write") - 1)

\* the context when that evaluation aborts; g is the context the child's
\* draw left
UntilWriteContext(g, sv) ==
    IF Multisampling(g) THEN DrawResolve(g, sv) ELSE g

camera_draw ==
    /\ state = "initialized"
    /\ nb_draws < MaxDraws
    /\ \E r \in {0} \cup gl.framebuffers, d \in {0} \cup gl.framebuffers :
        LET g0 == ChildDraw(gl, r, d)
            cs == <<Ev("ngli_node_draw", "child", <<r, d>>)>> \o CaptureDrawCalls(g0, s)
        IN
        /\ \E trap \in (IF CaptureEnabled(s) THEN WriteCountTraps(s) ELSE {FALSE}) :
             IF trap
             THEN /\ gl' = UntilWriteContext(g0, s)
                  /\ calls' = UntilWrite(cs)
                  /\ out' = out
                  /\ state' = "aborted"
             ELSE /\ gl' = CaptureDraw(g0, s)
                  /\ calls' = cs
                  /\ out' = Written(out, cs)
                  /\ state' = state
    /\ nb_draws' = nb_draws + 1
    /\ last' = "draw"
    /\ UNCHANGED <<s, cfg, ret, inited, heap, gl_at_init, gl_at_uninit, child,
                   child_at_update, tr>>

----------------------------------------------------------------------------
(* camera_uninit *)

\* lines 212-213
FreePipeBuf(h, sv) ==
    IF CaptureEnabled(sv) /\ sv.pipe_buf # 0
    THEN [h EXCEPT !.live = FALSE, !.frees = @ + 1]
    ELSE h

\* lines 220-224
ReleaseGL(g, sv) ==
    DeleteTextures(
        DeleteRenderbuffers(
            FramebufferTexture2D(
                BindFramebuffer(g, "GL_FRAMEBUFFER", sv.framebuffer_id), 0),
            sv.framebuffer_id),
        sv.texture_id)

UninitCalls(sv) ==
    (IF CaptureEnabled(sv) THEN <<Ev("free", "", <<sv.pipe_buf>>)>> ELSE <<>>)
    \o <<Ev("BindFramebuffer", "GL_FRAMEBUFFER", <<sv.framebuffer_id>>),
         Ev("FramebufferTexture2D", "GL_FRAMEBUFFER", <<0>>),
         Ev("DeleteRenderbuffers", "", <<sv.framebuffer_id>>),
         Ev("DeleteTextures", "", <<sv.texture_id>>)>>

camera_uninit ==
    /\ state \in {"initialized", "init_failed"}
    /\ heap' = FreePipeBuf(heap, s)
    /\ gl' = ReleaseGL(gl, s)
    /\ calls' = UninitCalls(s)
    /\ gl_at_uninit' = gl
    /\ state' = "released"
    /\ last' = "uninit"
    /\ UNCHANGED <<s, cfg, ret, inited, gl_at_init, child, child_at_update, tr, out,
                   nb_draws>>

----------------------------------------------------------------------------
(* The node as constructed: parameters set, priv_data otherwise zeroed *)

Camera(v, p, et, ct, ut, kf, fd, w, h) ==
    [ eye |-> v.eye, center |-> v.center, up |-> v.up, perspective |-> p,
      eye_transform |-> et, center_transform |-> ct, up_transform |-> ut,
      fov_animkf |-> kf, nb_fov_animkf |-> Len(kf), current_fov_kf |-> 0,
      pipe_fd |-> fd, pipe_width |-> w, pipe_height |-> h,
      pipe_buf |-> 0, texture_id |-> 0, framebuffer_id |-> 0 ]

Context(fbs, rb, tb, rfb, dfb, ms, mts) ==
    [ textures |-> FirstTextures, framebuffers |-> fbs, renderbuffers |-> rb,
      tex2d |-> tb, read_fb |-> rfb, draw_fb |-> dfb, multisample |-> ms,
      max_texture_size |-> mts,
      teximg |-> [n \in Names |-> IF n \in FirstTextures THEN <<4, 4>> ELSE <<>>],
      attach |-> [n \in Names |-> IF n \in fbs THEN Min(FirstTextures) ELSE 0] ]

InitWith(cameras, contexts) ==
    /\ s \in cameras
    /\ cfg = s
    /\ gl \in contexts
    /\ gl_at_init = gl
    /\ gl_at_uninit = gl
    /\ state = "uninitialized"
    /\ ret = 0
    /\ inited = <<>>
    /\ heap = [live |-> FALSE, nmemb |-> 0, size |-> 0, allocs |-> 0, frees |-> 0]
    /\ child = [modelview_matrix |-> <<>>, projection_matrix |-> <<>>,
                seen |-> [t |-> -1, modelview |-> <<>>, projection |-> <<>>]]
    /\ child_at_update = child
    /\ tr = [what \in Slots |-> [matrix |-> NoMatrix, t |-> -1]]
    /\ calls = <<>>
    /\ last = "none"
    /\ out = <<>>
    /\ nb_draws = 0

Nodes == TransformKinds \cup {NoNode}

DefaultPose == [eye |-> <<0, 0, 9>>, center |-> <<0, 0, 0>>, up |-> <<0, 1, 0>>]

\* Capture and context in every combination, one camera pose without
\* transforms or keyframes; with pipe_fd zero the sizes are the square ones.
CaptureParams ==
    { c \in PipeFds \X Dims \X Dims : c[1] # 0 \/ c[2] = c[3] }

CaptureCameras ==
    { Camera(DefaultPose, p, NoNode, NoNode, NoNode, <<>>, c[1], c[2], c[3]) :
        p \in Perspectives, c \in CaptureParams }

CaptureContexts ==
    { Context(FirstFbs, FirstRenderbuffers, tb, rfb, dfb, ms, mts) :
        tb \in {0} \cup FirstTextures,
        rfb \in {0} \cup FirstFbs, dfb \in {0} \cup FirstFbs, ms \in {0, 1},
        mts \in MaxTextureSizes }

Init == InitWith(CaptureCameras, CaptureContexts)

\* Poses, transforms and keyframes in every combination, capture off or on
\* at 2x2, in a context where the camera's framebuffer is the only one.
PoseCameras ==
    { Camera(v, p, et, ct, ut, kf, c[1], c[2], c[3]) :
        v \in CamVecs, p \in Perspectives, et \in Nodes, ct \in Nodes, ut \in Nodes,
        kf \in FovLists, c \in {<<0, 0, 0>>, <<3, 2, 2>>} }

PoseContexts ==
    { Context({}, {}, 0, 0, 0, 0, mts) : mts \in MaxTextureSizes }

InitCam == InitWith(PoseCameras, PoseContexts)

\* Capture at sizes up to the largest texture a context may allow; at these
\* sizes pipe_width * pipe_height is within int and only the product by 4
\* may leave it.
WideDims == {2, 23171, 32768}

WideTextureSizes == {16384, 32768}

WideCameras ==
    { Camera(DefaultPose, p, NoNode, NoNode, NoNode, <<>>, 3, w, h) :
        p \in Perspectives, w \in WideDims, h \in WideDims }

WideContexts ==
    { Context(FirstFbs, FirstRenderbuffers, 0, 0, dfb, ms, mts) :
        dfb \in {0} \cup FirstFbs, ms \in {0, 1}, mts \in WideTextureSizes }

InitWide == InitWith(WideCameras, WideContexts)

Next == camera_init \/ camera_update \/ camera_draw \/ camera_uninit

Spec == Init /\ [][Next]_vars

SpecCam == InitCam /\ [][Next]_vars

SpecWide == InitWide /\ [][Next]_vars

----------------------------------------------------------------------------
(* Properties of camera_init *)

\* positions in the call log of the calls named op
Where(cs, op) == {i \in 1..Len(cs) : cs[i].op = op}

\* positions of the sub-initializations that returned a negative code
FailedInits(cs) == {i \in Where(cs, "ngli_node_init") : cs[i].a[1] < 0}

TexturesCreated == gl.textures \ gl_at_init.textures
FramebuffersCreated == gl.framebuffers \ gl_at_init.framebuffers

\* C1: camera_init initializes child, eye_transform, center_transform and
\* up_transform (the transforms only if present) in that order; at the first
\* sub-initialization returning a negative code it returns that code at once:
\* no later sub-node is initialized, no pixel buffer is allocated and no GL
\* texture or framebuffer is created.
C1_InitPropagatesFirstFailure ==
    /\ last = "init" =>
        /\ inited = SubSeq(InitOrder(cfg), 1, Len(inited))
        /\ Len(inited) >= 1
        /\ \A i \in 1..Len(inited) :
             calls[i].op = "ngli_node_init" /\ calls[i].target = inited[i]
        /\ Where(calls, "ngli_node_init") = 1..Len(inited)
        /\ FailedInits(calls) = {} => inited = InitOrder(cfg)
    /\ (last = "init" /\ FailedInits(calls) # {}) =>
        /\ state = "init_failed"
        /\ FailedInits(calls) = {Len(calls)}
        /\ ret = calls[Len(calls)].a[1]
        /\ heap.allocs = 0
        /\ s.pipe_buf = 0
        /\ TexturesCreated = {}
        /\ FramebuffersCreated = {}
        /\ gl = gl_at_init

C1_Witness ==
    /\ last = "init"
    /\ state = "init_failed"
    /\ ret = -2
    /\ inited = <<"child", "eye_transform">>
    /\ cfg.center_transform # NoNode
    /\ cfg.up_transform # NoNode
    /\ CaptureEnabled(cfg)

\* C2: after init followed by uninit on a capture-configured camera, with any
\* number of frames in between, the live GL textures and the live GL
\* framebuffers are as many as before init, and the pixel buffer has been
\* freed exactly once.
C2_UninitReleasesEverything ==
    (state = "released" /\ ret = 0 /\ CaptureEnabled(cfg)) =>
        /\ Cardinality(gl.textures) = Cardinality(gl_at_init.textures)
        /\ Cardinality(gl.framebuffers) = Cardinality(gl_at_init.framebuffers)
        /\ heap.allocs = 1
        /\ heap.frees = 1
        /\ ~heap.live

\* C3 as stated: the pixel buffer, the texture and the framebuffer are
\* allocated exactly when pipe_fd is non-zero and both sizes are positive.
C3_AllocatesIffSizedCapture ==
    /\ (heap.allocs > 0 \/ TexturesCreated # {} \/ FramebuffersCreated # {}) =>
           (cfg.pipe_fd # 0 /\ cfg.pipe_width > 0 /\ cfg.pipe_height > 0)
    /\ (state = "initialized" /\ last = "init"
        /\ cfg.pipe_fd # 0 /\ cfg.pipe_width > 0 /\ cfg.pipe_height > 0) =>
           (heap.allocs = 1 /\ TexturesCreated # {} /\ FramebuffersCreated # {})

\* C3, amended: camera_init attempts the allocation of the pixel buffer
\* exactly when pipe_fd is non-zero and every sub-initialization succeeded,
\* whatever pipe_width and pipe_height are, and creates the GL texture and
\* framebuffer exactly when that allocation returned a buffer; with pipe_fd
\* zero it allocates none of them.
C3_AllocatesIffPipeFd ==
    last = "init" =>
        /\ (Where(calls, "calloc") # {}) <=> (cfg.pipe_fd # 0 /\ FailedInits(calls) = {})
        /\ \A i \in Where(calls, "calloc") :
             calls[i].a = <<4, cfg.pipe_width * cfg.pipe_height>>
        /\ (heap.allocs = 1) <=> (s.pipe_buf # 0)
        /\ (heap.allocs = 1) <=> (Cardinality(TexturesCreated) = 1)
        /\ (heap.allocs = 1) <=> (Cardinality(FramebuffersCreated) = 1)
        /\ heap.allocs = 1 => Where(calls, "calloc") # {}
        /\ (state = "initialized" /\ cfg.pipe_fd # 0) => heap.allocs = 1
        /\ cfg.pipe_fd = 0 =>
             (heap.allocs = 0 /\ TexturesCreated = {} /\ FramebuffersCreated = {})

C3_Witness ==
    /\ last = "init"
    /\ cfg.pipe_fd # 0
    /\ cfg.pipe_width = -1
    /\ cfg.pipe_height = -1
    /\ heap.allocs = 1
    /\ heap.nmemb * heap.size = 4
    /\ TexturesCreated # {}
    /\ FramebuffersCreated # {}

\* C4: after a successful camera_init with capture enabled the framebuffer
\* bound to GL_FRAMEBUFFER (GL_FRAMEBUFFER_BINDING) is the one that was bound
\* when camera_init was called; the capture framebuffer is bound only between
\* the save and the restore.
C4_InitRestoresFramebufferBinding ==
    (last = "init" /\ state = "initialized" /\ CaptureEnabled(cfg)) =>
        /\ GetFramebufferBinding(gl) = GetFramebufferBinding(gl_at_init)
        /\ s.framebuffer_id \notin {gl.read_fb, gl.draw_fb}
        /\ s.framebuffer_id \notin {gl_at_init.read_fb, gl_at_init.draw_fb}
        /\ LET binds == Where(calls, "BindFramebuffer")
               saves == {i \in Where(calls, "GetIntegerv") :
                           calls[i].target = "GL_FRAMEBUFFER_BINDING"}
           IN /\ Cardinality(saves) = 1
              /\ Cardinality(binds) = 2
              /\ \A i \in saves : calls[i].a = <<gl_at_init.draw_fb>>
              /\ \A i \in binds : \A j \in saves : j < i
              /\ calls[Min(binds)].a = <<s.framebuffer_id>>
              /\ calls[Len(calls)].op = "BindFramebuffer"
              /\ calls[Len(calls)].a = <<gl_at_init.draw_fb>>

C4_Witness ==
    /\ last = "init"
    /\ state = "initialized"
    /\ CaptureEnabled(cfg)
    /\ gl_at_init.draw_fb = 1
    /\ gl.draw_fb = 1
    /\ s.framebuffer_id # 0

----------------------------------------------------------------------------
(* Properties of camera_draw *)

\* the write every captured frame is to make
FrameWrite == <<cfg.pipe_fd, cfg.pipe_width * cfg.pipe_height * 4>>

\* C5: with capture enabled every camera_draw issues exactly one write of
\* pipe_width*pipe_height*4 bytes to pipe_fd, after the child's draw has
\* returned and after the readback of the pixels; N draws make N such writes
\* and nothing else is written; with capture disabled a draw issues no
\* readback and no write.
C5_OneWritePerDraw ==
    /\ out = [i \in 1..(IF CaptureEnabled(cfg) THEN nb_draws ELSE 0) |->
                Ev("write", "", FrameWrite)]
    /\ (last = "draw" /\ CaptureEnabled(cfg)) =>
        /\ Cardinality(Where(calls, "write")) = 1
        /\ Cardinality(Where(calls, "ReadPixels")) = 1
        /\ Where(calls, "ngli_node_draw") = {1}
        /\ \A r \in Where(calls, "ReadPixels") : \A w \in Where(calls, "write") :
             /\ 1 < r
             /\ r < w
             /\ calls[w].a = FrameWrite
             /\ calls[r].a[4] = cfg.pipe_width
             /\ calls[r].a[5] = cfg.pipe_height
    /\ (last = "draw" /\ ~CaptureEnabled(cfg)) =>
        /\ Where(calls, "write") = {}
        /\ Where(calls, "ReadPixels") = {}
        /\ Where(calls, "ngli_node_draw") = {1}
        /\ Len(calls) = 1

C5_Witness ==
    /\ last = "draw"
    /\ CaptureEnabled(cfg)
    /\ nb_draws = 2
    /\ Len(out) = 2
    /\ out[2].a = <<3, 16>>
    /\ gl.multisample = 1

\* C6: whatever read and draw framebuffer bindings are in effect when the
\* child's draw returns, they are the bindings when camera_draw returns, both
\* when multisampling is detected (changed, then restored) and when it is not
\* (never changed).
C6_DrawRestoresBindings ==
    last = "draw" =>
        /\ calls[1].op = "ngli_node_draw"
        /\ <<gl.read_fb, gl.draw_fb>> = calls[1].a
        /\ (CaptureEnabled(cfg) /\ Multisampling(gl)) =>
             /\ Cardinality(Where(calls, "BindFramebuffer")) = 5
             /\ calls[Len(calls) - 1] = Ev("BindFramebuffer", "GL_READ_FRAMEBUFFER", <<calls[1].a[1]>>)
             /\ calls[Len(calls)] = Ev("BindFramebuffer", "GL_DRAW_FRAMEBUFFER", <<calls[1].a[2]>>)
        /\ ~(CaptureEnabled(cfg) /\ Multisampling(gl)) =>
             Where(calls, "BindFramebuffer") = {}

C6_Witness ==
    /\ last = "draw"
    /\ CaptureEnabled(cfg)
    /\ Multisampling(gl)
    /\ gl.read_fb = 1
    /\ gl.draw_fb = 0
    /\ s.framebuffer_id \notin {0, 1}
    /\ Where(calls, "BlitFramebuffer") # {}

----------------------------------------------------------------------------
(* Properties of camera_update *)

\* the time of the most recent camera_update
UpdateTime == calls[Len(calls)].a[1]

\* a static vec3 as the vec4 the look-at call is given when no matrix applies
AsPoint(v) == <<v[1], v[2], v[3], 1>>

\* the vector look-at is to be given for one of eye, center, up at time t
ExpectedVec(what, t) ==
    IF TransformOf(cfg, what) = NoNode THEN AsPoint(StaticOf(cfg, what))
    ELSE IF TransformMatrix(TransformOf(cfg, what), t) = NoMatrix
    THEN AsPoint(StaticOf(cfg, what))
    ELSE Mat4MulVec4(TransformMatrix(TransformOf(cfg, what), t), AsPoint(StaticOf(cfg, what)))

\* look-at of the three expected vectors, without the capture flip
PlainView(t) ==
    Mat4LookAt(ExpectedVec("eye", t), ExpectedVec("center", t), ExpectedVec("up", t))

\* the fov the projection is to be computed with at time t
ExpectedFov(t) ==
    IF cfg.fov_animkf # <<>> THEN AnimkfValue(cfg.fov_animkf, t) ELSE cfg.perspective[1]

ExpectedProjection(t) ==
    Mat4Perspective(ExpectedFov(t), cfg.perspective[2], cfg.perspective[3],
                    cfg.perspective[4])

\* C7: in every camera_update(t) the view matrix is in the child's
\* modelview_matrix and the projection matrix in its projection_matrix before
\* the child's update is invoked; the child's update is invoked exactly once,
\* with the same t, and never runs with the matrices of an earlier frame.
C7_ChildUpdatedAfterMatrices ==
    last = "update" =>
        /\ {i \in Where(calls, "ngli_node_update") : calls[i].target = "child"}
               = {Len(calls)}
        /\ UpdateTime \in Times
        /\ child.seen.t = UpdateTime
        /\ child.seen.modelview = child.modelview_matrix
        /\ child.seen.projection = child.projection_matrix
        /\ \A i \in 1..16 : i # 6 => child.seen.modelview[i] = PlainView(UpdateTime)[i]
        /\ child.seen.projection = ExpectedProjection(UpdateTime)

C7_Witness ==
    /\ last = "update"
    /\ child.seen.t = 2
    /\ cfg.eye_transform = "tz"
    /\ cfg.fov_animkf # <<>>
    /\ child.seen.modelview = PlainView(2)
    /\ child.seen.modelview # PlainView(1)
    /\ child.seen.projection # ExpectedProjection(1)

\* the entries of the view matrix holding the vertical basis row: C indices
\* 1, 5, 9 and 13
VerticalRow == {2, 6, 10, 14}

\* C8: with capture enabled the vertical basis row of the view matrix written
\* to the child is the negation of that row as the same update computes it
\* with capture disabled, and every other entry is the same.
C8_CaptureNegatesVerticalRow ==
    (last = "update" /\ CaptureEnabled(cfg)) =>
        \A i \in 1..16 :
            child.modelview_matrix[i] =
                IF i \in VerticalRow THEN -PlainView(UpdateTime)[i]
                ELSE PlainView(UpdateTime)[i]

\* C9: for each of eye, center and up the vector given to look-at is the
\* static parameter, multiplied by the matrix of its own transform node if
\* that node is present and returns a matrix after being updated for t; an
\* absent node, or one returning no matrix, leaves the static parameter, and
\* a node is updated for t before it is queried.
C9_TransformsApplyPerVector ==
    last = "update" =>
        /\ Cardinality(Where(calls, "ngli_mat4_look_at")) = 1
        /\ \A i \in Where(calls, "ngli_mat4_look_at") :
             calls[i].a = ExpectedVec("eye", UpdateTime)
                            \o ExpectedVec("center", UpdateTime)
                            \o ExpectedVec("up", UpdateTime)
        /\ \A what \in Slots :
             LET upd == {i \in Where(calls, "ngli_node_update") : calls[i].target = what}
                 get == {i \in Where(calls, "ngli_get_last_transformation_matrix") :
                           calls[i].target = what}
             IN IF TransformOf(cfg, what) = NoNode
                THEN upd = {} /\ get = {} /\ tr[what].t = -1
                ELSE /\ Cardinality(upd) = 1
                     /\ Cardinality(get) = 1
                     /\ \A i \in upd : calls[i].a = <<UpdateTime>> /\ i + 1 \in get
                     /\ tr[what] = TransformUpdate(TransformOf(cfg, what), UpdateTime)

C9_Witness ==
    /\ last = "update"
    /\ UpdateTime = 0
    /\ cfg.eye_transform = "tz2"
    /\ cfg.center_transform = NoNode
    /\ cfg.up_transform = "tz"
    /\ \E i \in Where(calls, "ngli_mat4_look_at") :
         calls[i].a = <<0, 0, 10, 1>> \o AsPoint(cfg.center) \o AsPoint(cfg.up)

\* C10: when the fov keyframe list is non-empty the projection is computed
\* with the fov sampled from the keyframes at t, which has been stored over
\* the fov parameter; when it is empty the projection is computed with the
\* static fov; aspect, near and far are the static parameters in both cases.
C10_ProjectionUsesSampledFov ==
    last = "update" =>
        /\ child.projection_matrix = ExpectedProjection(UpdateTime)
        /\ s.perspective = <<ExpectedFov(UpdateTime), cfg.perspective[2],
                             cfg.perspective[3], cfg.perspective[4]>>
        /\ \A i \in Where(calls, "ngli_mat4_perspective") : calls[i].a = s.perspective
        /\ (cfg.nb_fov_animkf # 0) <=> (Where(calls, "ngli_animkf_interpolate") # {})
        /\ \A i \in Where(calls, "ngli_animkf_interpolate") :
             \A j \in Where(calls, "ngli_mat4_perspective") : i < j
        /\ cfg.nb_fov_animkf = 0 => s.perspective = cfg.perspective

C10_Witness ==
    /\ last = "update"
    /\ UpdateTime = 1
    /\ cfg.nb_fov_animkf = 2
    /\ cfg.perspective[1] = 90
    /\ s.perspective[1] = 45
    /\ child.projection_matrix[6] = 2414

----------------------------------------------------------------------------
(* Properties of the capture path *)

\* C11: in camera_draw with capture enabled and multisampling detected, the
\* framebuffer that was the draw binding is bound as read source, then the
\* capture framebuffer as draw target, then one blit is issued with source
\* and destination rectangles (0,0,pipe_width,pipe_height), then the capture
\* framebuffer is bound as read source, then the pixels are read back, from
\* the capture framebuffer; without multisampling no bind and no blit is
\* issued before the readback.
C11_ResolveThenReadback ==
    (last = "draw" /\ CaptureEnabled(cfg)) =>
        LET rp == Min(Where(calls, "ReadPixels"))
            d0 == calls[1].a[2]
            r0 == calls[1].a[1]
            w  == cfg.pipe_width
            h  == cfg.pipe_height
        IN IF Multisampling(gl)
           THEN /\ rp >= 5
                /\ calls[rp - 4] = Ev("BindFramebuffer", "GL_READ_FRAMEBUFFER", <<d0>>)
                /\ calls[rp - 3] = Ev("BindFramebuffer", "GL_DRAW_FRAMEBUFFER", <<s.framebuffer_id>>)
                /\ calls[rp - 2] = Ev("BlitFramebuffer", "", <<0, 0, w, h, 0, 0, w, h>>)
                /\ calls[rp - 1] = Ev("BindFramebuffer", "GL_READ_FRAMEBUFFER", <<s.framebuffer_id>>)
                /\ Where(calls, "BlitFramebuffer") = {rp - 2}
                /\ {i \in Where(calls, "BindFramebuffer") : i < rp} = {rp - 4, rp - 3, rp - 1}
                /\ calls[rp].a[1] = s.framebuffer_id
           ELSE /\ Where(calls, "BindFramebuffer") = {}
                /\ Where(calls, "BlitFramebuffer") = {}
                /\ calls[rp].a[1] = r0

C11_Witness ==
    /\ last = "draw"
    /\ CaptureEnabled(cfg)
    /\ Multisampling(gl)
    /\ calls[1].a = <<0, 1>>
    /\ s.framebuffer_id \notin {0, 1}
    /\ \E i \in Where(calls, "ReadPixels") : calls[i].a[1] = s.framebuffer_id
    /\ \E i \in Where(calls, "BlitFramebuffer") : calls[i].a = <<0, 0, 2, 1, 0, 0, 2, 1>>

\* C12: capture setup in camera_init is invisible to the caller's GL
\* bindings: the texture bound to GL_TEXTURE_2D and the framebuffer bound
\* when init is called are the ones bound after a successful init with
\* capture enabled.
C12_InitKeepsAllBindings ==
    (last = "init" /\ state = "initialized" /\ CaptureEnabled(cfg)) =>
        /\ gl.tex2d = gl_at_init.tex2d
        /\ GetFramebufferBinding(gl) = GetFramebufferBinding(gl_at_init)

\* C13: when calloc fails in camera_init (capture configured, every
\* sub-initialization succeeded) init returns a failure code, no GL texture
\* or framebuffer has been created and no GL binding has been changed.
C13_AllocFailureLeavesGLUntouched ==
    (last = "init" /\ Where(calls, "calloc") # {} /\ heap.allocs = 0) =>
        /\ state = "init_failed"
        /\ ret < 0
        /\ gl = gl_at_init
        /\ s.texture_id = 0
        /\ s.framebuffer_id = 0
        /\ \A op \in {"GenTextures", "GenFramebuffers", "BindTexture",
                      "BindFramebuffer", "TexImage2D", "FramebufferTexture2D"} :
              Where(calls, op) = {}

C13_Witness ==
    /\ last = "init"
    /\ CaptureEnabled(cfg)
    /\ cfg.pipe_width = 2
    /\ cfg.pipe_height = 1
    /\ inited = InitOrder(cfg)
    /\ Where(calls, "calloc") # {}
    /\ heap.allocs = 0
    /\ ret = -1
    /\ gl.tex2d = 1
    /\ gl.draw_fb = 1

\* C14: camera_uninit binds, detaches and deletes only what camera_init
\* created: when no capture framebuffer was created (capture not configured,
\* or init failed before creating it) uninit issues no GL bind, no attachment
\* change and no delete, and the framebuffer bindings and attachments are
\* untouched.
C14_UninitTouchesOnlyItsObjects ==
    (last = "uninit" /\ s.framebuffer_id = 0 /\ s.texture_id = 0) =>
        /\ \A op \in {"BindFramebuffer", "FramebufferTexture2D",
                      "DeleteRenderbuffers", "DeleteTextures"} :
              Where(calls, op) = {}
        /\ gl.read_fb = gl_at_uninit.read_fb
        /\ gl.draw_fb = gl_at_uninit.draw_fb
        /\ gl.attach = gl_at_uninit.attach

\* C16: after camera_uninit the GL framebuffer binding is the one that was
\* bound when uninit was called, and it never names the camera's own capture
\* framebuffer.
C16_UninitRestoresFramebufferBinding ==
    last = "uninit" =>
        /\ GetFramebufferBinding(gl) = GetFramebufferBinding(gl_at_uninit)
        /\ gl.read_fb = gl_at_uninit.read_fb
        /\ s.framebuffer_id # 0 =>
              s.framebuffer_id \notin {gl.read_fb, gl.draw_fb}

----------------------------------------------------------------------------
(* Properties of camera_update across frames *)

\* C17: camera_update never modifies the static eye, center and up: after
\* any sequence of updates the stored vectors are the configured ones, and
\* when there are no fov keyframes an update with the same t as the update
\* before it writes the same two matrices into the child, which depend on the
\* configuration and t alone.
C17_UpdateKeepsStaticVectors ==
    /\ s.eye = cfg.eye
    /\ s.center = cfg.center
    /\ s.up = cfg.up
    /\ (last = "update" /\ cfg.fov_animkf = <<>>) =>
          /\ child.modelview_matrix =
                ViewMatrix(cfg, ExpectedVec("eye", UpdateTime),
                           ExpectedVec("center", UpdateTime),
                           ExpectedVec("up", UpdateTime))
          /\ child.projection_matrix = ProjectionMatrix(cfg)
          /\ child_at_update.seen.t = UpdateTime =>
                /\ child.modelview_matrix = child_at_update.modelview_matrix
                /\ child.projection_matrix = child_at_update.projection_matrix

C17_Witness ==
    /\ last = "update"
    /\ cfg.fov_animkf = <<>>
    /\ cfg.eye_transform = "tz"
    /\ cfg.pipe_fd # 0
    /\ UpdateTime = 2
    /\ child_at_update.seen.t = 2
    /\ child.modelview_matrix = child_at_update.modelview_matrix
    /\ child.modelview_matrix # ViewMatrix(cfg, AsPoint(cfg.eye), AsPoint(cfg.center),
                                           AsPoint(cfg.up))
    /\ s.eye = cfg.eye

----------------------------------------------------------------------------
(* Properties of the pixel buffer *)

\* whether a block of h.nmemb members of h.size bytes holds n bytes, n being
\* an int converted to size_t (a negative int becomes a count above any block)
Covers(h, n) ==
    /\ n >= 0
    /\ h.nmemb = 4
    /\ n \div 4 + (IF n % 4 = 0 THEN 0 ELSE 1) <= h.size

\* C15: for every pipe_width and pipe_height with which camera_init succeeds
\* with capture enabled, the pixel buffer holds the pipe_width*pipe_height*4
\* bytes that camera_draw reads into it and the count it passes to write,
\* also when the count has wrapped around in int; the size of the buffer is
\* the same from init to uninit.
C15_BufferCoversFrame ==
    /\ (CaptureEnabled(cfg) /\ heap.allocs > 0) =>
          /\ heap.nmemb = 4
          /\ heap.size = cfg.pipe_width * cfg.pipe_height
    /\ (last = "draw" /\ CaptureEnabled(cfg)) =>
          /\ \A i \in Where(calls, "ReadPixels") :
                calls[i].a[4] * calls[i].a[5] <= heap.size
          /\ \A i \in Where(calls, "write") : Covers(heap, calls[i].a[2])

====
